---- MODULE Spec2Model ----
(***************************************************************************)
(* Model of backend/spot_bridge.py: the SpotBridge connection supervisor,  *)
(* its watchdog thread and the operations the web layer calls on it.       *)
(*                                                                         *)
(* The web layer (backend/app.py) calls every bridge method from its one   *)
(* event loop, so the calls on the bridge form one sequential caller; the  *)
(* watchdog threads started by connect() run concurrently with it, and any *)
(* thread may be delayed for any time between two of its steps.            *)
(*                                                                         *)
(* The bridge refers to at most one thread object, self.watchdog_thread;   *)
(* a thread whose object connect() has replaced runs on unreferenced. All  *)
(* such threads run the same loop on the same fields, so the model counts  *)
(* them by the position they are at.                                       *)
(*                                                                         *)
(* Time is counted in units of 0.1 s (the watchdog's poll interval), so    *)
(* the 0.5 s velocity timeout is 5 units and the 2.0 s join timeout is 20. *)
(* Timestamps are kept relative to the present: time.time() reads Now at   *)
(* every step, and a tick of the clock moves every stored timestamp one    *)
(* unit into the past. A timestamp that is already older than the timeout  *)
(* stays at 1: the code only ever compares its age with the timeout.       *)
(***************************************************************************)
EXTENDS Integers, FiniteSets, Sequences, TLC

\* ---------------------------------------------------------------- bounds
\* Watchdog threads that can be alive at once, and keepalives that can be
\* running at once (connect() is not offered beyond that).
MaxThreads == 2

\* ------------------------------------------------------ program constants
\* time_since_last > 0.5 (spot_bridge.py:198), in units of 0.1 s.
WatchdogTimeout == 5
\* join(timeout=2.0) (spot_bridge.py:155), in units of 0.1 s.
JoinTimeout == 20

\* time.time(): the present, on the sliding scale of the timestamps.
Now == WatchdogTimeout + 2

VARIABLES
    br,         \* the SpotBridge object's fields
    wd,         \* the position of the thread self.watchdog_thread refers to
    orphans,    \* position -> number of running threads no longer referred to
    caller,     \* the event loop's position inside a bridge method
    result,     \* what the bridge method that just returned gave its caller
    called,     \* capability calls made by the method in progress or just returned
    leaseOwner, \* robot side: who holds the body lease
    kaLease,    \* LeaseKeepAlive objects created and not yet shut down
    kaEstop,    \* EstopKeepAlive objects created and not yet shut down
    armed,      \* a deadline set by send_velocity awaits its stop
    forced,     \* watchdog stops issued since send_velocity last set the deadline
    warnings    \* release steps of _cleanup that raised and were logged

vars == <<br, wd, orphans, caller, result, called, leaseOwner, kaLease, kaEstop,
          armed, forced, warnings>>

\* What the robot and the SDK objects hold, outside the bridge's fields.
robotSide == <<leaseOwner, kaLease, kaEstop>>

\* The record of what the watchdog did about the current deadline.
history == <<armed, forced>>

\* The watchdog threads: the one the bridge refers to and the others.
threads == <<wd, orphans>>

\* The positions of a running thread in _watchdog_loop.
Running == {"loop", "compare", "call", "clear", "sleep"}

\* Failures a capability call can end in: an RpcError or any other exception.
Failures == {"RpcError", "Exception"}

\* --------------------------------------------------------------- __init__
BridgeInit ==
    [robot |-> FALSE, command_client |-> FALSE, state_client |-> FALSE,
     lease_client |-> FALSE, power_client |-> FALSE, estop_client |-> FALSE,
     lease_keepalive |-> FALSE, estop_endpoint |-> FALSE,
     estop_keepalive |-> FALSE,
     last_velocity_time |-> 0, watchdog_thread |-> FALSE,
     watchdog_active |-> FALSE, connected |-> FALSE]

CallerIdle ==
    [pc |-> "idle", op |-> "none", joinLeft |-> 0, args |-> <<>>,
     locals |-> <<>>]

\* The "data" of an envelope that carries no test report.
NoData ==
    [probes |-> <<>>, tests |-> <<>>, summary |-> "none",
     ready_to_connect |-> "absent"]

NoResult ==
    [op |-> "none", ok |-> FALSE, error_type |-> "none", message |-> "none",
     raised |-> FALSE, data |-> NoData]

Init ==
    /\ br = BridgeInit
    /\ wd = "dead"
    /\ orphans = [p \in Running |-> 0]
    /\ caller = CallerIdle
    /\ result = NoResult
    /\ called = {}
    /\ leaseOwner \in {"none", "other"}
    /\ kaLease = 0
    /\ kaEstop = 0
    /\ armed = FALSE
    /\ forced = 0
    /\ warnings = {}

\* ------------------------------------------------------------------ helpers
\* self.watchdog_thread.is_alive()
IsAlive == wd \in Running

\* The number of watchdog threads that are running.
AliveThreads ==
    (IF IsAlive THEN 1 ELSE 0) + orphans["loop"] + orphans["compare"]
        + orphans["call"] + orphans["clear"] + orphans["sleep"]

\* The result envelopes of the bridge methods.
OkEnvelope(op) ==
    [op |-> op, ok |-> TRUE, error_type |-> "none", message |-> "none",
     raised |-> FALSE, data |-> NoData]

\* {"ok": False, "error": {"error_type": ..., "message": str(e), ...}}
ErrEnvelope(op, kind) ==
    [op |-> op, ok |-> FALSE, error_type |-> kind, message |-> "str(e)",
     raised |-> FALSE, data |-> NoData]

\* {"ok": False, "error": {"message": msg}}: the envelope of a failed
\* precondition, which carries a message and no error_type.
Refusal(op, msg) ==
    [op |-> op, ok |-> FALSE, error_type |-> "none", message |-> msg,
     raised |-> FALSE, data |-> NoData]

\* An exception that leaves the bridge method: no envelope is returned.
Raised(op, kind) ==
    [op |-> op, ok |-> FALSE, error_type |-> kind, message |-> "str(e)",
     raised |-> TRUE, data |-> NoData]

\* A step that returns nothing to the event loop: the envelope of a method
\* that returned one step ago has been handed on, and with it the record of
\* the calls it made.
Silent ==
    /\ result' = NoResult
    /\ called' = IF caller.pc = "idle" THEN {} ELSE called
    /\ warnings' = IF caller.pc = "idle" THEN {} ELSE warnings

\* A timestamp one tick later: one unit older, and no older than expired.
Recede(t) == IF t > 1 THEN t - 1 ELSE t

\* The clock advances by 0.1 s (one poll interval): every stored timestamp is
\* 0.1 s older, every time.sleep(0.1) in progress ends, and what is left of a
\* join(timeout) in progress shrinks by as much; a join whose 2.0 s are over
\* returns.
Tick ==
    /\ br' = [br EXCEPT !.last_velocity_time = Recede(@)]
    /\ wd' = IF wd = "sleep" THEN "loop" ELSE wd
    /\ orphans' = [orphans EXCEPT !["loop"] = @ + orphans["sleep"],
                                  !["sleep"] = 0]
    /\ caller' = IF caller.pc = "cl_join" /\ caller.joinLeft <= 1
                 THEN [caller EXCEPT !.pc = "cl_release", !.joinLeft = 0]
                 ELSE [caller EXCEPT !.joinLeft = IF @ > 0 THEN @ - 1 ELSE 0]
    /\ Silent
    /\ UNCHANGED <<robotSide, history>>

\* ------------------------------------------------------------ _watchdog_loop
\* A watchdog thread is at position pc: the thread the bridge refers to
\* (own) or one of the others.
WdAt(own, pc) == IF own THEN wd = pc ELSE orphans[pc] > 0

\* That thread moves from position `from` to position `to`; a thread that
\* ends ("dead") is no longer counted.
WdGoto(own, from, to) ==
    IF own
    THEN /\ wd' = to
         /\ UNCHANGED orphans
    ELSE /\ orphans' = IF to = "dead" THEN [orphans EXCEPT ![from] = @ - 1]
                       ELSE [orphans EXCEPT ![from] = @ - 1, ![to] = @ + 1]
         /\ UNCHANGED wd

\* while self.watchdog_active: ... if self.last_velocity_time > 0:
\* the thread ends when the flag is false, and the join _cleanup is in on it
\* returns; else it goes on to compare an active deadline, or sleeps.
WdPoll(own) ==
    /\ WdAt(own, "loop")
    /\ WdGoto(own, "loop",
              IF ~br.watchdog_active THEN "dead"
              ELSE IF br.last_velocity_time > 0 THEN "compare"
              ELSE "sleep")
    /\ caller' = IF ~br.watchdog_active /\ own /\ caller.pc = "cl_join"
                 THEN [caller EXCEPT !.pc = "cl_release", !.joinLeft = 0]
                 ELSE caller
    /\ Silent
    /\ UNCHANGED <<br, robotSide, history>>

\* time_since_last = time.time() - self.last_velocity_time
\* if time_since_last > 0.5:
Expired(last) == Now - last > WatchdogTimeout

\* The second read of last_velocity_time and the comparison with the timeout.
WdCompare(own) ==
    /\ WdAt(own, "compare")
    /\ WdGoto(own, "compare",
              IF Expired(br.last_velocity_time) THEN "call" ELSE "sleep")
    /\ Silent
    /\ UNCHANGED <<br, caller, robotSide, history>>

\* A watchdog whose forced stop also marks the bridge disconnected.
WdCallDisconnects(own) ==
    /\ WdAt(own, "call")
    /\ WdGoto(own, "call", "clear")
    /\ IF br.robot /\ br.command_client
         THEN /\ forced' = forced + 1
              /\ armed' = (armed /\ ~Expired(br.last_velocity_time))
         ELSE UNCHANGED history
    /\ Silent
    /\ br' = [br EXCEPT !.connected = FALSE]
    /\ UNCHANGED <<caller, robotSide>>

\* _send_zero_velocity: if self.robot and self.command_client:
\* self.command_client.robot_command(cmd, ...). The zero-velocity command is
\* issued, and the thread then waits for the call to return. The call's
\* failure is swallowed, as is the AttributeError of a command_client cleared
\* between the test and the call, which sends nothing, like a failed test.
WdCall(own) ==
    /\ WdAt(own, "call")
    /\ WdGoto(own, "call", "clear")
    /\ IF br.robot /\ br.command_client
         THEN /\ forced' = forced + 1
              /\ armed' = (armed /\ ~Expired(br.last_velocity_time))
         ELSE UNCHANGED history
    /\ Silent
    /\ UNCHANGED <<br, caller, robotSide>>

\* robot_command has returned or raised:
\* self.last_velocity_time = 0.0, then time.sleep(0.1)
WdClear(own) ==
    /\ WdAt(own, "clear")
    /\ WdGoto(own, "clear", "sleep")
    /\ br' = [br EXCEPT !.last_velocity_time = 0]
    /\ Silent
    /\ UNCHANGED <<caller, robotSide, history>>

Watchdog(own) ==
    \/ WdPoll(own)
    \/ WdCompare(own)
    \/ WdCall(own)
    \/ WdClear(own)

\* ------------------------------------------------------------------ connect
\* A handler that would call the bridge while another call is in progress
\* (a handler run in a thread pool instead of on the event loop).
EnterAnytime(op, pc) ==
    /\ caller' = [CallerIdle EXCEPT !.pc = pc, !.op = op]
    /\ result' = NoResult
    /\ called' = {}
    /\ warnings' = {}

\* The event loop is free to run a handler: no bridge call is in progress and
\* the response of the call before has left.
Ready == caller.pc = "idle" /\ result.op = "none"

\* A bridge method is entered by the idle event loop: every handler of
\* app.py is an `async def` that calls the bridge without awaiting, so a
\* call begins only when the one before it has returned.
Enter(op, pc) ==
    /\ Ready
    /\ caller' = [CallerIdle EXCEPT !.pc = pc, !.op = op]
    /\ result' = NoResult
    /\ called' = {}
    /\ warnings' = {}

\* The handler that got an envelope from the bridge returns it (`return
\* result`, or the envelope of its own except clause): the response leaves
\* before the event loop takes the next request.
Respond ==
    /\ caller.pc = "idle"
    /\ result.op # "none"
    /\ result' = NoResult
    /\ called' = {}
    /\ warnings' = {}
    /\ UNCHANGED <<br, threads, caller, robotSide, history>>

\* The method in progress returns `r` to the event loop.
Return(r) ==
    /\ caller' = CallerIdle
    /\ result' = r

\* An exception inside connect()'s try block, an RpcError or any other: both
\* except clauses run _cleanup() and then return the error envelope.
ConnectFails == [caller EXCEPT !.pc = "cl_flags"]

\* connect() is called (from any state: the method tests nothing first).
Connect ==
    /\ AliveThreads < MaxThreads
    /\ kaLease < MaxThreads
    /\ kaEstop < MaxThreads
    /\ Enter("connect", "c_robot")
    /\ UNCHANGED <<br, threads, robotSide, history>>

\* self.robot = sdk.create_robot(self.hostname), or the call raises
ConnectCreateRobot ==
    /\ caller.pc = "c_robot"
    /\ \/ /\ br' = [br EXCEPT !.robot = TRUE]
          /\ caller' = [caller EXCEPT !.pc = "c_auth"]
       \/ /\ caller' = ConnectFails
          /\ UNCHANGED br
    /\ UNCHANGED <<threads, result, called, warnings, robotSide, history>>

\* self.robot.authenticate(self.username, self.password)
ConnectAuthenticate ==
    /\ caller.pc = "c_auth"
    /\ called' = called \cup {"authenticate"}
    /\ \E ok \in BOOLEAN :
         caller' = IF ok THEN [caller EXCEPT !.pc = "c_sync"] ELSE ConnectFails
    /\ UNCHANGED <<br, threads, result, warnings, robotSide, history>>

\* self.robot.time_sync.wait_for_sync()
ConnectTimeSync ==
    /\ caller.pc = "c_sync"
    /\ called' = called \cup {"time_sync"}
    /\ \E ok \in BOOLEAN :
         caller' = IF ok THEN [caller EXCEPT !.pc = "c_clients"]
                   ELSE ConnectFails
    /\ UNCHANGED <<br, threads, result, warnings, robotSide, history>>

\* A connect() whose watchdog block stands before its lease block: once the
\* clients are resolved the watchdog is started.
ConnectClientsThenWatchdog ==
    /\ caller.pc = "c_clients"
    /\ called' = called \cup {"ensure_client"}
    /\ \E k \in 0..5 :
         /\ br' = [br EXCEPT !.command_client = @ \/ k >= 1,
                             !.state_client = @ \/ k >= 2,
                             !.lease_client = @ \/ k >= 3,
                             !.power_client = @ \/ k >= 4,
                             !.estop_client = @ \/ k >= 5]
         /\ caller' = IF k = 5 THEN [caller EXCEPT !.pc = "c_wdflag"]
                      ELSE ConnectFails
    /\ UNCHANGED <<threads, result, warnings, robotSide, history>>

\* The five ensure_client calls, in the order of the code: the first k succeed
\* and are assigned; the next one, if any, raises.
ConnectClients ==
    /\ caller.pc = "c_clients"
    /\ called' = called \cup {"ensure_client"}
    /\ \E k \in 0..5 :
         /\ br' = [br EXCEPT !.command_client = @ \/ k >= 1,
                             !.state_client = @ \/ k >= 2,
                             !.lease_client = @ \/ k >= 3,
                             !.power_client = @ \/ k >= 4,
                             !.estop_client = @ \/ k >= 5]
         /\ caller' = IF k = 5 THEN [caller EXCEPT !.pc = "c_lease"]
                      ELSE ConnectFails
    /\ UNCHANGED <<threads, result, warnings, robotSide, history>>

\* LeaseClient.take(): the body lease is taken for this client whoever held
\* it before (take, unlike acquire, does not fail on a lease another holds).
LeaseTake(owner) == "self"

\* self.lease_client.take(); self.lease_keepalive = LeaseKeepAlive(...)
ConnectLease ==
    /\ caller.pc = "c_lease"
    /\ called' = called \cup {"lease_take"}
    /\ \/ /\ leaseOwner' = LeaseTake(leaseOwner)
          /\ kaLease' = kaLease + 1
          /\ br' = [br EXCEPT !.lease_keepalive = TRUE]
          /\ caller' = [caller EXCEPT !.pc = "c_estop"]
       \/ /\ caller' = ConnectFails
          /\ UNCHANGED <<br, leaseOwner, kaLease>>
    /\ UNCHANGED <<threads, result, warnings, kaEstop, history>>

\* self.estop_endpoint = EstopEndpoint(...); force_simple_setup();
\* self.estop_keepalive = EstopKeepAlive(self.estop_endpoint)
ConnectEstop ==
    /\ caller.pc = "c_estop"
    /\ called' = called \cup {"estop_setup"}
    /\ \/ /\ br' = [br EXCEPT !.estop_endpoint = TRUE, !.estop_keepalive = TRUE]
          /\ kaEstop' = kaEstop + 1
          /\ caller' = [caller EXCEPT !.pc = "c_wdflag"]
       \/ /\ br' = [br EXCEPT !.estop_endpoint = TRUE]
          /\ caller' = ConnectFails
          /\ UNCHANGED kaEstop
    /\ UNCHANGED <<threads, result, warnings, leaseOwner, kaLease,
                   history>>

\* self.watchdog_active = True
ConnectWatchdogFlag ==
    /\ caller.pc = "c_wdflag"
    /\ br' = [br EXCEPT !.watchdog_active = TRUE]
    /\ caller' = [caller EXCEPT !.pc = "c_wdstart"]
    /\ UNCHANGED <<threads, result, called, warnings, robotSide, history>>

\* self.watchdog_thread = threading.Thread(target=self._watchdog_loop, ...)
\* self.watchdog_thread.start(): the bridge refers to the new thread object,
\* and a running thread it referred to before runs on unreferenced; the new
\* thread runs, or start() raises and it does not.
ConnectWatchdogStart ==
    /\ caller.pc = "c_wdstart"
    /\ br' = [br EXCEPT !.watchdog_thread = TRUE]
    /\ orphans' = IF IsAlive THEN [orphans EXCEPT ![wd] = @ + 1] ELSE orphans
    /\ \/ /\ wd' = "loop"
          /\ caller' = [caller EXCEPT !.pc = "c_connected"]
       \/ /\ wd' = "dead"
          /\ caller' = ConnectFails
    /\ UNCHANGED <<result, called, warnings, robotSide, history>>

\* self.connected = True
ConnectSetConnected ==
    /\ caller.pc = "c_connected"
    /\ br' = [br EXCEPT !.connected = TRUE]
    /\ caller' = [caller EXCEPT !.pc = "c_getid"]
    /\ UNCHANGED <<threads, result, called, warnings, robotSide, history>>

\* return {"ok": True, "data": {..., "robot_id": self.robot.get_id()...}}
ConnectReturn ==
    /\ caller.pc = "c_getid"
    /\ called' = called \cup {"get_id"}
    /\ \/ Return(OkEnvelope("connect"))
       \/ /\ caller' = ConnectFails
          /\ UNCHANGED result
    /\ UNCHANGED <<br, threads, warnings, robotSide, history>>

\* --------------------------------------------------------------- disconnect
\* disconnect() is called: it runs _cleanup() and returns ok.
Disconnect ==
    /\ Enter("disconnect", "cl_flags")
    /\ UNCHANGED <<br, threads, robotSide, history>>

\* ----------------------------------------------------------------- _cleanup
\* self.connected = False; self.watchdog_active = False; then, if the
\* watchdog thread is alive, join(timeout=2.0) begins.
CleanupFlags ==
    /\ caller.pc = "cl_flags"
    /\ br' = [br EXCEPT !.connected = FALSE, !.watchdog_active = FALSE]
    /\ caller' = IF br.watchdog_thread /\ IsAlive
                 THEN [caller EXCEPT !.pc = "cl_join",
                                     !.joinLeft = JoinTimeout]
                 ELSE [caller EXCEPT !.pc = "cl_release"]
    /\ armed' = FALSE
    /\ forced' = 0
    /\ UNCHANGED <<threads, result, called, warnings, robotSide>>

\* The release steps of _cleanup, each try: <call> except Exception: log.
ReleaseSteps == {"estop_shutdown", "lease_shutdown", "return_lease"}

\* A _cleanup that would not test whether the objects are set.
AttemptedUnguarded(b) == ReleaseSteps

\* The release steps _cleanup attempts: a keepalive's shutdown() if the
\* keepalive is set, return_lease if lease_client is set.
Attempted(b) ==
    {c \in ReleaseSteps :
        \/ c = "estop_shutdown" /\ b.estop_keepalive
        \/ c = "lease_shutdown" /\ b.lease_keepalive
        \/ c = "return_lease" /\ b.lease_client}

\* A _cleanup with one try block around its three release steps: the first
\* step that raises ends them, and what comes after it is never run.
ReleaseAborting(raising) ==
    LET failed == raising \cap Attempted(br)
        estopDone == br.estop_keepalive /\ "estop_shutdown" \notin failed
        leaseTried == br.lease_keepalive /\ "estop_shutdown" \notin failed
        leaseDone == leaseTried /\ "lease_shutdown" \notin failed
        returnTried == br.lease_client
                         /\ failed \cap {"estop_shutdown", "lease_shutdown"} = {}
    IN  /\ called' = called
                        \cup (IF br.estop_keepalive THEN {"estop_shutdown"} ELSE {})
                        \cup (IF leaseTried THEN {"lease_shutdown"} ELSE {})
                        \cup (IF returnTried THEN {"return_lease"} ELSE {})
        /\ warnings' = warnings \cup failed
        /\ kaEstop' = IF estopDone THEN kaEstop - 1 ELSE kaEstop
        /\ kaLease' = IF leaseDone THEN kaLease - 1 ELSE kaLease
        /\ leaseOwner' = IF /\ leaseOwner = "self"
                            /\ \/ leaseDone
                               \/ returnTried /\ "return_lease" \notin failed
                         THEN "none" ELSE leaseOwner
        /\ br' = [br EXCEPT !.estop_keepalive = @ /\ ~estopDone,
                            !.lease_keepalive = @ /\ ~leaseDone]
        /\ caller' = [caller EXCEPT !.pc = "cl_clear"]

\* Lines 157-180: every release step whose object is set is attempted, and
\* the ones in `raising` raise; each failure is caught and logged, so the
\* steps after it still run. Both keepalive fields are set to None. The
\* lease goes back to the robot when the keepalive (made with
\* return_at_exit=True) shuts down or when return_lease succeeds.
Release(raising) ==
    /\ called' = called \cup Attempted(br)
    /\ warnings' = warnings \cup (raising \cap Attempted(br))
    /\ kaEstop' = IF br.estop_keepalive THEN kaEstop - 1 ELSE kaEstop
    /\ kaLease' = IF br.lease_keepalive THEN kaLease - 1 ELSE kaLease
    /\ leaseOwner' = IF /\ leaseOwner = "self"
                        /\ \/ br.lease_keepalive /\ "lease_shutdown" \notin raising
                           \/ br.lease_client /\ "return_lease" \notin raising
                     THEN "none" ELSE leaseOwner
    /\ br' = [br EXCEPT !.estop_keepalive = FALSE, !.lease_keepalive = FALSE]
    /\ caller' = [caller EXCEPT !.pc = "cl_clear"]

CleanupRelease ==
    /\ caller.pc = "cl_release"
    /\ \E raising \in SUBSET Attempted(br) : Release(raising)
    /\ UNCHANGED <<threads, result, history>>

\* The references _cleanup clears (lines 183-189); it leaves
\* last_velocity_time and watchdog_thread as they are.
Cleared(b) ==
    [b EXCEPT !.estop_endpoint = FALSE, !.estop_client = FALSE,
              !.power_client = FALSE, !.lease_client = FALSE,
              !.state_client = FALSE, !.command_client = FALSE,
              !.robot = FALSE]

\* _cleanup clears the references and returns; connect()'s except clause
\* (for the RpcError or the other exception it caught) then returns the
\* error envelope, disconnect() returns ok.
CleanupClear ==
    /\ caller.pc = "cl_clear"
    /\ br' = Cleared(br)
    /\ \E kind \in Failures :
         Return(IF caller.op = "connect" THEN ErrEnvelope("connect", kind)
                ELSE OkEnvelope("disconnect"))
    /\ UNCHANGED <<threads, called, warnings, robotSide, history>>

\* Velocities and pose axes are fixed-point numbers in tenths of a unit
\* (m/s, rad/s, m, rad): 5 is the 0.5 of lines 379-381, 3 the 0.3 of lines
\* 461-464.
VelocityLimit == 5

PoseLimit == 3

\* (vx, vy, yaw) as passed to send_velocity: every axis is given a value
\* below the range, one inside it, one above it and one on a bound.
VelocityInputs ==
    {<<-7, 2, 6>>, <<2, 6, -7>>, <<6, -7, 2>>, <<5, -5, 0>>}

\* Python's min(a, b) and max(a, b): the first argument unless the second is
\* strictly smaller (larger).
PyMin(a, b) == IF b < a THEN b ELSE a

PyMax(a, b) == IF b > a THEN b ELSE a

\* A clamp that bounds a value from above only.
ClampUpperOnly(x, lim) == PyMin(lim, x)

\* max(-lim, min(lim, x))
Clamp(x, lim) == PyMax(-lim, PyMin(lim, x))

\* A clamping whose every assignment reads the first argument.
ClampEachFromFirst(v, lim) == [i \in DOMAIN v |-> Clamp(v[1], lim)]

\* The arguments after the clamping assignments, one per axis.
ClampEach(v, lim) == [i \in DOMAIN v |-> Clamp(v[i], lim)]

\* (height, roll, pitch, yaw) as passed to set_body_pose: every axis is given
\* values below, inside and above the range, and every value of an axis comes
\* with more than one setting of the other axes.
PoseInputs ==
    {<<-4, 1, 3, 5>>, <<5, -4, 1, 3>>, <<3, 5, -4, 1>>, <<1, 3, 5, -4>>,
     <<-4, -4, 5, 5>>}

\* ---------------------------------------------------------- operate methods
\* try: <call>; return ok / except RpcError: return the error envelope, and,
\* in the methods that have the clause, except Exception: likewise. An
\* exception no clause catches leaves the method.
Outcome(op, out, catchesAll) ==
    IF out = "ok" THEN OkEnvelope(op)
    ELSE IF out = "RpcError" \/ catchesAll THEN ErrEnvelope(op, out)
    ELSE Raised(op, out)

\* An operate method that would run while another call is in progress.
OperateAnytime(op, refused, msg, call, catchesAll) ==
    /\ warnings' = {}
    /\ IF refused
         THEN /\ result' = Refusal(op, msg)
              /\ called' = {}
         ELSE /\ called' = {call}
              /\ \E out \in {"ok"} \cup Failures :
                   result' = Outcome(op, out, catchesAll)
    /\ UNCHANGED <<br, threads, caller, robotSide, history>>

\* A method that tests its precondition, makes one capability call inside its
\* try block and returns: it refuses when `refused`, else returns as
\* Outcome says. Like every bridge method it is called by the idle event
\* loop and returns before the loop does anything else.
Operate(op, refused, msg, call, catchesAll) ==
    /\ Ready
    /\ warnings' = {}
    /\ IF refused
         THEN /\ result' = Refusal(op, msg)
              /\ called' = {}
         ELSE /\ called' = {call}
              /\ \E out \in {"ok"} \cup Failures :
                   result' = Outcome(op, out, catchesAll)
    /\ UNCHANGED <<br, threads, caller, robotSide, history>>

\* get_status(): except RpcError and except Exception
GetStatus ==
    Operate("get_status", ~br.connected \/ ~br.robot, "Not connected to robot",
            "get_robot_state", TRUE)

\* A power_on() without its test of self.connected.
PowerOnUnguarded ==
    Operate("power_on", FALSE, "Not connected", "power_on_motors", FALSE)

\* power_on(): except RpcError only
PowerOn ==
    Operate("power_on", ~br.connected, "Not connected", "power_on_motors", FALSE)

\* power_off(): except RpcError only
PowerOff ==
    Operate("power_off", ~br.connected, "Not connected",
            "safe_power_off_motors", FALSE)

\* stand(): except RpcError only
Stand ==
    Operate("stand", ~br.connected, "Not connected", "blocking_stand", FALSE)

\* sit(): except RpcError only
Sit ==
    Operate("sit", ~br.connected, "Not connected", "blocking_sit", FALSE)

\* set_body_pose(): refused when not connected; else the four arguments are
\* clamped, the stand command is built from the clamped values and sent, and
\* the envelope returns them; except RpcError and except Exception.
SetBodyPose ==
    /\ Ready
    /\ warnings' = {}
    /\ IF ~br.connected
         THEN /\ result' = Refusal("set_body_pose", "Not connected")
              /\ called' = {}
         ELSE /\ called' = {"robot_command"}
              /\ \/ \E p \in PoseInputs :
                       LET cp == ClampEach(p, PoseLimit)
                       IN  result' =
                             [OkEnvelope("set_body_pose") EXCEPT
                                !.data = [input |-> p, issued |-> cp,
                                          height |-> cp[1], roll |-> cp[2],
                                          pitch |-> cp[3], yaw |-> cp[4]]]
                 \/ \E out \in Failures :
                       result' = ErrEnvelope("set_body_pose", out)
    /\ UNCHANGED <<br, threads, caller, robotSide, history>>

\* An estop_stop() without its test of connected and of the endpoint.
EstopStopUnguarded ==
    Operate("estop_stop", FALSE, "E-Stop not configured", "estop_stop", TRUE)

\* estop_stop(): except Exception
EstopStop ==
    Operate("estop_stop", ~br.connected \/ ~br.estop_endpoint,
            "E-Stop not configured", "estop_stop", TRUE)

\* estop_release(): except Exception
EstopRelease ==
    Operate("estop_release", ~br.connected \/ ~br.estop_endpoint,
            "E-Stop not configured", "estop_allow", TRUE)

\* send_velocity() up to self.command_client.robot_command(cmd, ...): refused
\* when not connected; else the arguments are clamped, the command is built
\* from the clamped values and sent, and a failure is returned (RpcError) or
\* leaves the method (anything else: there is no other clause). The data of
\* a successful step records the arguments and the values the command
\* carried.
SendVelocity ==
    /\ Ready
    /\ warnings' = {}
    /\ IF ~br.connected
         THEN /\ result' = Refusal("send_velocity", "Not connected")
              /\ called' = {}
              /\ UNCHANGED caller
         ELSE /\ called' = {"robot_command"}
              /\ IF ~br.command_client
                   THEN /\ result' = Raised("send_velocity", "Exception")
                        /\ UNCHANGED caller
                   ELSE \/ \E v \in VelocityInputs :
                             LET cv == ClampEach(v, VelocityLimit)
                             IN  /\ caller' = [CallerIdle EXCEPT
                                                  !.pc = "sv_stamp",
                                                  !.op = "send_velocity",
                                                  !.args = v, !.locals = cv]
                                 /\ result' =
                                      [NoResult EXCEPT
                                         !.data = [input |-> v, issued |-> cv]]
                        \/ \E out \in Failures :
                             /\ result' = Outcome("send_velocity", out, FALSE)
                             /\ UNCHANGED caller
    /\ UNCHANGED <<br, threads, leaseOwner, kaLease, kaEstop, history>>

\* self.last_velocity_time = time.time(); return ok with the clamped values
SendVelocityStamp ==
    /\ caller.pc = "sv_stamp"
    /\ br' = [br EXCEPT !.last_velocity_time = Now]
    /\ armed' = TRUE
    /\ forced' = 0
    /\ Return([OkEnvelope("send_velocity") EXCEPT
                  !.data = [input |-> caller.args,
                            vx |-> caller.locals[1],
                            vy |-> caller.locals[2],
                            yaw |-> caller.locals[3]]])
    /\ UNCHANGED <<threads, called, warnings, robotSide>>

\* ------------------------------------------------- the velocity endpoint
\* The positional parameters of send_velocity(self, vx, vy, yaw) after self;
\* none has a default.
SendVelocityParams == 3

\* The arguments command_velocity passes to spot_bridge.send_velocity for a
\* request (vx, vy, yaw) with the body-pose and locomotion-hint fields at
\* their defaults: cmd.vx, cmd.vy, cmd.yaw, cmd.body_height, cmd.body_roll,
\* cmd.body_pitch, cmd.body_yaw, cmd.locomotion_hint.
GatewayArgs(v) == v \o <<0, 0, 0, 0, "None">>

\* Python binds positional arguments to parameters before the body runs: a
\* call with more or fewer arguments than the parameters without default
\* raises TypeError, and no statement of the method is executed.
Binds(args, params) == Len(args) = params

\* POST /api/command/velocity: the handler calls send_velocity with
\* GatewayArgs; the TypeError of the call is caught by the handler's own
\* `except Exception`, which returns the error envelope. Were the call to
\* bind, the handler would return what send_velocity returns.
CommandVelocity ==
    \E v \in VelocityInputs :
        IF Binds(GatewayArgs(v), SendVelocityParams)
          THEN SendVelocity
          ELSE /\ Ready
               /\ result' = ErrEnvelope("command_velocity", "TypeError")
               /\ called' = {}
               /\ warnings' = {}
               /\ UNCHANGED <<br, threads, caller, robotSide, history>>

\* A stop() whose _send_zero_velocity lets the failure of the command out:
\* stop()'s own except clause returns the error before the deadline is
\* cleared.
StopPropagates ==
    /\ Ready
    /\ IF ~br.connected
         THEN /\ result' = Refusal("stop", "Not connected")
              /\ called' = {}
              /\ warnings' = {}
              /\ UNCHANGED caller
         ELSE IF br.robot /\ br.command_client
         THEN /\ called' = {"robot_command"}
              /\ warnings' = {}
              /\ \/ /\ caller' = [CallerIdle EXCEPT !.pc = "st_clear",
                                                     !.op = "stop"]
                    /\ result' = NoResult
                 \/ /\ result' = ErrEnvelope("stop", "Exception")
                    /\ UNCHANGED caller
         ELSE /\ caller' = [CallerIdle EXCEPT !.pc = "st_clear", !.op = "stop"]
              /\ result' = NoResult
              /\ called' = {}
              /\ warnings' = {}
    /\ UNCHANGED <<br, threads, leaseOwner, kaLease, kaEstop, history>>

\* stop() up to the end of self._send_zero_velocity(): refused when not
\* connected; else the zero-velocity command is sent if robot and
\* command_client are set, and it is delivered or fails; the failure is
\* caught inside _send_zero_velocity and logged, and stop() goes on.
Stop ==
    /\ Ready
    /\ IF ~br.connected
         THEN /\ result' = Refusal("stop", "Not connected")
              /\ called' = {}
              /\ warnings' = {}
              /\ UNCHANGED caller
         ELSE /\ caller' = [CallerIdle EXCEPT !.pc = "st_clear", !.op = "stop"]
              /\ result' = NoResult
              /\ IF br.robot /\ br.command_client
                   THEN /\ called' = {"robot_command"}
                        /\ \E delivered \in BOOLEAN :
                             warnings' = IF delivered THEN {}
                                         ELSE {"zero_velocity"}
                   ELSE /\ called' = {}
                        /\ warnings' = {}
    /\ UNCHANGED <<br, threads, leaseOwner, kaLease, kaEstop, history>>

\* A stop() that stamps the deadline as send_velocity does.
StopClearStamps ==
    /\ caller.pc = "st_clear"
    /\ br' = [br EXCEPT !.last_velocity_time = Now]
    /\ armed' = FALSE
    /\ Return(OkEnvelope("stop"))
    /\ UNCHANGED <<threads, called, warnings, robotSide, forced>>

\* self.last_velocity_time = 0.0; return ok
StopClear ==
    /\ caller.pc = "st_clear"
    /\ br' = [br EXCEPT !.last_velocity_time = 0]
    /\ armed' = FALSE
    /\ Return(OkEnvelope("stop"))
    /\ UNCHANGED <<threads, called, warnings, robotSide, forced>>

\* ---------------------------------------------------------- test_connection
\* What the four probes of test_connection meet, in the order the method
\* runs them: the TCP probe passes, is refused (connect_ex returns non-zero)
\* or raises; the identity query, the authentication and the clock sync pass
\* or raise. A probe after the first failure of the first three is not run.
ProbeOutcomes ==
    {<<t, "skipped", "skipped", "skipped">> : t \in {"refused", "error"}}
        \cup {<<"pass", "fail", "skipped", "skipped">>,
              <<"pass", "pass", "fail", "skipped">>}
        \cup {<<"pass", "pass", "pass", s>> : s \in {"pass", "fail"}}

\* tests.append({"name": ..., "status": ..., "message": ...})
Entry(name, status) == [name |-> name, status |-> status]

\* A test_connection that does not return at the first failed probe: every
\* probe appends its entry, a probe after a failed one failing too.
TestEntriesNoAbort(p) ==
    <<Entry("Network Connectivity", IF p[1] = "pass" THEN "pass" ELSE "fail"),
      Entry("Robot ID Query", IF p[2] = "pass" THEN "pass" ELSE "fail"),
      Entry("Authentication", IF p[3] = "pass" THEN "pass" ELSE "fail"),
      Entry("Time Synchronization", IF p[4] = "pass" THEN "pass" ELSE "warn")>>

\* A test_connection whose clock-sync failure would count as a failure, like
\* the failures of the other probes.
TestEntriesSyncFails(p) ==
    IF p[1] # "pass" THEN <<Entry("Network Connectivity", "fail")>>
    ELSE IF p[2] # "pass"
    THEN <<Entry("Network Connectivity", "pass"),
           Entry("Robot ID Query", "fail")>>
    ELSE IF p[3] # "pass"
    THEN <<Entry("Network Connectivity", "pass"),
           Entry("Robot ID Query", "pass"),
           Entry("Authentication", "fail")>>
    ELSE <<Entry("Network Connectivity", "pass"),
           Entry("Robot ID Query", "pass"),
           Entry("Authentication", "pass"),
           Entry("Time Synchronization", p[4])>>

\* The list `tests` as test_connection has built it when it returns: every
\* probe that ran appended one entry, and the first of the first three probes
\* to fail was the last to run; a clock-sync failure is recorded as "warn".
TestEntries(p) ==
    IF p[1] # "pass" THEN <<Entry("Network Connectivity", "fail")>>
    ELSE IF p[2] # "pass"
    THEN <<Entry("Network Connectivity", "pass"),
           Entry("Robot ID Query", "fail")>>
    ELSE IF p[3] # "pass"
    THEN <<Entry("Network Connectivity", "pass"),
           Entry("Robot ID Query", "pass"),
           Entry("Authentication", "fail")>>
    ELSE <<Entry("Network Connectivity", "pass"),
           Entry("Robot ID Query", "pass"),
           Entry("Authentication", "pass"),
           Entry("Time Synchronization",
                 IF p[4] = "pass" THEN "pass" ELSE "warn")>>

\* fail_count = sum(1 for t in tests if t["status"] == "fail")
FailCount(tests) ==
    Cardinality({i \in DOMAIN tests : tests[i].status = "fail"})

\* The "data" test_connection returns: the early returns (lines 686, 693,
\* 713, 730) give tests and summary only; the final return (lines 757-764)
\* adds "ready_to_connect": fail_count == 0.
TestData(p) ==
    LET tests == TestEntries(p)
        early == p[1] # "pass" \/ p[2] # "pass" \/ p[3] # "pass"
    IN  [probes |-> p,
         tests |-> tests,
         summary |-> IF p[1] = "refused" THEN "Network unreachable"
                     ELSE IF p[1] = "error" THEN "Network error"
                     ELSE IF p[2] # "pass" THEN "Robot unreachable"
                     ELSE IF p[3] # "pass" THEN "Authentication failed"
                     ELSE IF FailCount(tests) = 0 THEN "All tests passed"
                     ELSE "test(s) failed",
         ready_to_connect |-> IF early THEN "absent"
                              ELSE IF FailCount(tests) = 0 THEN "true"
                              ELSE "false"]

\* The probes that ran, as calls made by the method.
ProbesRun(p) ==
    {c \in {"tcp_connect", "get_id", "authenticate", "time_sync"} :
        \/ c = "tcp_connect"
        \/ c = "get_id" /\ p[2] # "skipped"
        \/ c = "authenticate" /\ p[3] # "skipped"
        \/ c = "time_sync" /\ p[4] # "skipped"}

\* test_connection(): the probes run on a robot object of their own
\* (test_robot), so the bridge's fields are neither read nor written.
TestConnection ==
    /\ Ready
    /\ warnings' = {}
    /\ \E p \in ProbeOutcomes :
         /\ result' = [OkEnvelope("test_connection") EXCEPT !.data = TestData(p)]
         /\ called' = ProbesRun(p)
    /\ UNCHANGED <<br, threads, caller, robotSide, history>>

\* ------------------------------------------------------------------ diagnose
\* What diagnose's two network probes meet: socket.gethostbyname resolves,
\* raises socket.gaierror, or raises something else (a UnicodeError for a host
\* name the idna codec rejects); the TCP probe connects, is refused
\* (connect_ex returns non-zero) or raises. The TCP probe is not reached when
\* the first probe's exception left the method.
DiagnoseOutcomes ==
    {<<d, t>> : d \in {"pass", "gaierror"}, t \in {"pass", "refused", "error"}}
        \cup {<<"error", "skipped">>}

\* sum(1 for c in checks if c["status"] == st)
StatusCount(checks, st) ==
    Cardinality({i \in DOMAIN checks : checks[i].status = st})

\* The list `checks` when diagnose reaches its summary: one entry per network
\* probe, one for the connection, and for a connected bridge one each for the
\* lease and the e-stop keepalive.
DiagnoseChecks(p, b) ==
    <<Entry("DNS Resolution", IF p[1] = "pass" THEN "pass" ELSE "fail"),
      Entry("Network Connectivity", IF p[2] = "pass" THEN "pass" ELSE "fail")>>
    \o (IF b.connected
        THEN <<Entry("Robot Connection", "pass"),
               Entry("Lease Status",
                     IF b.lease_keepalive THEN "pass" ELSE "warn"),
               Entry("E-Stop Status",
                     IF b.estop_keepalive THEN "pass" ELSE "warn")>>
        ELSE <<Entry("Robot Connection", "fail")>>)

\* The "data" diagnose returns; `summary` holds the three counts the summary
\* string is formatted from.
DiagnoseData(p, b) ==
    LET checks == DiagnoseChecks(p, b)
    IN  [probes |-> p,
         checks |-> checks,
         summary |-> [passed |-> StatusCount(checks, "pass"),
                      failed |-> StatusCount(checks, "fail"),
                      warnings |-> StatusCount(checks, "warn")],
         overall_status |-> IF StatusCount(checks, "fail") = 0
                            THEN "healthy" ELSE "degraded"]

\* diagnose(): the DNS probe's try has `except socket.gaierror` only, the TCP
\* probe's `except Exception`; the rest reads the bridge's fields.
Diagnose ==
    /\ Ready
    /\ warnings' = {}
    /\ \E p \in DiagnoseOutcomes :
         IF p[1] = "error"
           THEN /\ result' = Raised("diagnose", "Exception")
                /\ called' = {"gethostbyname"}
           ELSE /\ result' = [OkEnvelope("diagnose") EXCEPT
                                !.data = DiagnoseData(p, br)]
                /\ called' = {"gethostbyname", "tcp_connect"}
    /\ UNCHANGED <<br, threads, caller, robotSide, history>>

Next ==
    \/ Tick
    \/ Respond
    \/ \E own \in BOOLEAN : Watchdog(own)
    \/ Connect
    \/ ConnectCreateRobot
    \/ ConnectAuthenticate
    \/ ConnectTimeSync
    \/ ConnectClients
    \/ ConnectLease
    \/ ConnectEstop
    \/ ConnectWatchdogFlag
    \/ ConnectWatchdogStart
    \/ ConnectSetConnected
    \/ ConnectReturn
    \/ Disconnect
    \/ CleanupFlags
    \/ CleanupRelease
    \/ CleanupClear
    \/ GetStatus
    \/ PowerOn
    \/ PowerOff
    \/ Stand
    \/ Sit
    \/ SetBodyPose
    \/ EstopStop
    \/ EstopRelease
    \/ SendVelocity
    \/ SendVelocityStamp
    \/ CommandVelocity
    \/ Stop
    \/ StopClear
    \/ TestConnection
    \/ Diagnose

Spec == Init /\ [][Next]_vars

\* ======================================================================
\* Claims about the watchdog and the velocity deadline
\* ======================================================================

\* C1: while the bridge stays connected, a deadline that send_velocity set
\* and nothing renewed or stopped gets exactly one forced zero-velocity
\* command from the watchdog: never a second one for the same deadline, and
\* the deadline does not become inactive (last_velocity_time = 0) while it
\* still awaits its forced stop.
C1_OneForcedStopPerTimeout ==
    br.connected =>
        /\ forced <= 1
        /\ armed => br.last_velocity_time > 0

\* A watchdog thread issues its zero-velocity command in this step.
ForcedStop == forced' = forced + 1

\* C2: once send_velocity has set the deadline to T, no watchdog thread
\* issues a forced zero-velocity command before T + 0.5 s: whenever a forced
\* command is issued while a deadline is active, that deadline has expired.
C2_NoForcedStopBeforeExpiry ==
    [][ForcedStop /\ br.last_velocity_time > 0
          => Expired(br.last_velocity_time)]_vars

\* A watchdog thread clears an active deadline in this step (stop() clears
\* it from st_clear, _cleanup never does).
WatchdogClears ==
    /\ br.last_velocity_time > 0
    /\ br'.last_velocity_time = 0
    /\ caller.pc # "st_clear"

\* C3: the most recent send_velocity wins: when a watchdog thread clears the
\* deadline, the deadline it clears is one that has expired, as the one its
\* expiry check compared had, never a newer one that send_velocity wrote
\* since and that has not expired yet.
C3_ClearNeverOverwritesNewer ==
    [][WatchdogClears => Expired(br.last_velocity_time)]_vars

\* ======================================================================
\* Claims about connect, disconnect and _cleanup
\* ======================================================================

\* No session, client, lease or e-stop handle is held by the bridge.
HandlesAbsent(b) ==
    /\ ~b.robot /\ ~b.command_client /\ ~b.state_client /\ ~b.lease_client
    /\ ~b.power_client /\ ~b.estop_client /\ ~b.lease_keepalive
    /\ ~b.estop_endpoint /\ ~b.estop_keepalive

\* C4: a connect() that failed has returned ok:false and left the bridge
\* disconnected, with no watchdog thread running, no lease or e-stop
\* keepalive running and every session and client handle absent.
C4_FailedConnectRollsBack ==
    (result.op = "connect" /\ ~result.ok) =>
        /\ ~result.raised
        /\ ~br.connected
        /\ ~br.watchdog_active
        /\ AliveThreads = 0
        /\ kaLease = 0
        /\ kaEstop = 0
        /\ HandlesAbsent(br)

\* The positions of connect() before it sets self.connected = True.
ConnectSetup ==
    {"c_robot", "c_auth", "c_sync", "c_clients", "c_lease", "c_estop",
     "c_wdflag", "c_wdstart"}

\* C5: connect() called while the bridge is connected is reported as an
\* error and changes nothing: the step connect() takes while connected
\* returns an error envelope and leaves the bridge's fields, the keepalives,
\* the lease and the watchdog threads as they were.
C5_ConnectWhileConnectedRefused ==
    [][(br.connected /\ caller.pc \in ConnectSetup /\ caller'.pc # caller.pc)
          => /\ caller'.pc = "idle"
             /\ result'.op = "connect" /\ ~result'.ok /\ ~result'.raised
             /\ br' = br
             /\ threads' = threads
             /\ robotSide' = robotSide]_vars

\* ======================================================================
\* Claims about the operate methods and the result envelopes
\* ======================================================================

\* The operate methods of the bridge.
OperateMethods ==
    {"get_status", "power_on", "power_off", "stand", "sit", "send_velocity",
     "set_body_pose", "stop"}

\* C6: an operate method called while the bridge is not connected returns
\* ok:false in that same step, makes no capability call and leaves the
\* connection state, the handles, the deadline, the watchdog threads and the
\* robot side unchanged.
C6_OperateRefusedWhenNotConnected ==
    [][(caller.pc = "idle" /\ ~br.connected
          /\ (result'.op \in OperateMethods \/ caller'.op \in OperateMethods))
          => /\ result'.op \in OperateMethods
             /\ ~result'.ok /\ ~result'.raised
             /\ called' = {}
             /\ caller' = caller
             /\ br' = br
             /\ threads' = threads
             /\ robotSide' = robotSide]_vars

\* send_velocity has just been refused by a bridge that is not connected.
C6_Witness ==
    /\ ~br.connected
    /\ result = Refusal("send_velocity", "Not connected")
    /\ called = {}

\* C7: every bridge method returns a result envelope whatever the failure of
\* the capability call it made: no exception leaves a bridge method.
C7_NoExceptionLeavesTheBridge == ~result.raised

\* C8: lease acquisition is must-acquire: when another controller holds the
\* lease as connect() reaches its lease step, the step fails, connect()
\* goes on to roll back, and the other controller still holds the lease.
C8_LeaseNeverTakenFromHolder ==
    [][(caller.pc = "c_lease" /\ leaseOwner = "other" /\ caller'.pc # "c_lease")
          => /\ caller'.pc = "cl_flags"
             /\ leaseOwner' = "other"]_vars

\* The bridge's fields apart from the velocity deadline.
Handles(b) == [b EXCEPT !.last_velocity_time = 0]

\* C9: disconnect() on a bridge that is already disconnected (its handles are
\* absent from the first step of _cleanup on) makes no capability call,
\* leaves the bridge's flags and handles and the robot side as they are, and
\* returns ok:true.
C9_DisconnectIdempotent ==
    [][(caller.op = "disconnect" /\ ~br.robot)
          => /\ called' = {}
             /\ Handles(br') = Handles(br)
             /\ ~br'.connected /\ HandlesAbsent(br')
             /\ robotSide' = robotSide
             /\ (caller'.pc = "idle" => result' = OkEnvelope("disconnect"))]_vars

\* disconnect() has just returned ok without having made any capability
\* call: it was called on a disconnected bridge, one that had been through
\* connect() before (it still refers to the thread object made then).
C9_Witness ==
    /\ result = OkEnvelope("disconnect")
    /\ called = {}
    /\ ~br.connected
    /\ HandlesAbsent(br)
    /\ br.watchdog_thread

\* C10: _cleanup always completes: every release step whose object is set is
\* attempted whichever of them raise, both keepalive fields are cleared, and
\* _cleanup ends with the bridge disconnected and every handle absent,
\* returning to the method that ran it.
C10_CleanupAlwaysCompletes ==
    [][/\ (caller.pc = "cl_release" /\ caller'.pc # "cl_release")
            => /\ caller'.pc = "cl_clear"
               /\ Attempted(br) \subseteq called'
               /\ ~br'.lease_keepalive /\ ~br'.estop_keepalive
       /\ (caller.pc = "cl_clear" /\ caller'.pc # "cl_clear")
            => /\ caller'.pc = "idle"
               /\ result'.op = caller.op
               /\ ~br'.connected /\ ~br'.watchdog_active
               /\ HandlesAbsent(br')]_vars

\* _cleanup has just completed although all three release steps raised.
C10_Witness ==
    /\ warnings = ReleaseSteps
    /\ result.op \in {"connect", "disconnect"}
    /\ ~br.connected
    /\ HandlesAbsent(br)

\* ======================================================================
\* Claims about the session as a whole and about teardown
\* ======================================================================

\* The robot session, the five clients, both keepalives and the e-stop
\* endpoint are all held by the bridge.
SessionPresent(b) ==
    /\ b.robot /\ b.command_client /\ b.state_client /\ b.lease_client
    /\ b.power_client /\ b.estop_client /\ b.lease_keepalive
    /\ b.estop_endpoint /\ b.estop_keepalive

\* C11: whenever no connect() or disconnect() is in progress the session is
\* all-or-nothing: a connected bridge holds the whole session and its
\* watchdog thread is running; a bridge that is not connected holds none of
\* it and no watchdog thread is running.
C11_SessionAllOrNothing ==
    caller.op \notin {"connect", "disconnect"} =>
        IF br.connected
        THEN SessionPresent(br) /\ br.watchdog_active /\ IsAlive
        ELSE HandlesAbsent(br) /\ AliveThreads = 0

\* _cleanup is releasing the session's resources: it is past the join and
\* has not returned.
Releasing == caller.pc \in {"cl_release", "cl_clear"}

\* C12: once _cleanup has started to release resources, no watchdog thread
\* is running any more and none issues a zero-velocity command.
C12_NoWatchdogDuringTeardown ==
    [][Releasing => AliveThreads = 0 /\ ~ForcedStop]_vars

\* The session and the five capability clients are held by the bridge.
ClientsPresent(b) ==
    /\ b.robot /\ b.command_client /\ b.state_client /\ b.lease_client
    /\ b.power_client /\ b.estop_client

\* An operate method takes a step: it returns in this step, or it is inside
\* send_velocity or stop.
OperateStep ==
    \/ result'.op \in OperateMethods
    \/ caller'.op \in OperateMethods
    \/ caller.op \in OperateMethods

C15_StopAlwaysClearsDeadline ==
    result.op = "stop" => br.last_velocity_time = 0

\* C16: the deadline is inactive after every disconnect() and after the
\* rollback of every failed connect(): whenever either has just returned,
\* last_velocity_time is 0.
C16_DeadlineInactiveAfterTeardown ==
    (result.op = "disconnect" \/ (result.op = "connect" /\ ~result.ok))
        => br.last_velocity_time = 0

\* C17: get_status() on a bridge that is not connected returns ok:false with
\* the error kind NotConnected, having made no capability call, and does not
\* raise.
C17_GetStatusNotConnectedKind ==
    (result.op = "get_status" /\ ~br.connected) =>
        /\ ~result.ok
        /\ ~result.raised
        /\ called = {}
        /\ result.error_type = "NotConnected"

\* A watchdog thread ends in this step.
ThreadEnds == AliveThreads' < AliveThreads

\* C18: a watchdog thread ends only when it has been cancelled
\* (watchdog_active is false), and a cancelled thread does end at its next
\* poll: while a thread that was cancelled is still running, the flag it
\* polls is not set true again.
C18_WatchdogEndsOnlyWhenCancelled ==
    [][/\ ThreadEnds => ~br.watchdog_active
       /\ (~br.watchdog_active /\ AliveThreads > 0) => ~br'.watchdog_active]_vars

\* ======================================================================
\* Claims about test_connection
\* ======================================================================

\* C19: test_connection() against a host whose TCP probe fails returns
\* ok:true with ready_to_connect = false and exactly one entry, a fail for
\* "Network Connectivity", having run none of the later probes.
C19_UnreachableHostNotReady ==
    (result.op = "test_connection" /\ result.data.probes[1] # "pass") =>
        /\ result.ok
        /\ result.data.ready_to_connect = "false"
        /\ result.data.tests = <<Entry("Network Connectivity", "fail")>>
        /\ called = {"tcp_connect"}

\* C20: test_connection() whose first three probes pass and whose clock sync
\* fails returns ready_to_connect = true with four entries, the last a warn
\* "Time Synchronization" entry; and no test_connection() ever returns a fail
\* entry for "Time Synchronization".
C20_ClockSyncFailureIsWarning ==
    result.op = "test_connection" =>
        /\ result.data.probes = <<"pass", "pass", "pass", "fail">> =>
              /\ result.ok
              /\ result.data.ready_to_connect = "true"
              /\ Len(result.data.tests) = 4
              /\ result.data.tests[4] = Entry("Time Synchronization", "warn")
        /\ \A i \in DOMAIN result.data.tests :
              result.data.tests[i] # Entry("Time Synchronization", "fail")

\* test_connection() has just returned after its clock sync failed.
C20_Witness ==
    /\ result.op = "test_connection"
    /\ result.data.probes = <<"pass", "pass", "pass", "fail">>
    /\ called = {"tcp_connect", "get_id", "authenticate", "time_sync"}

\* ======================================================================
\* Claims about clamping
\* ======================================================================

\* x lies in [-lim, lim].
InRange(x, lim) == -lim <= x /\ x <= lim

\* y is x brought into [-lim, lim]: x itself when in range, else the nearer
\* bound.
Nearest(x, lim, y) ==
    /\ InRange(y, lim)
    /\ InRange(x, lim) => y = x
    /\ x > lim => y = lim
    /\ x < -lim => y = -lim

\* C21: for every (vx, vy, yaw) passed to send_velocity on a connected
\* bridge, each axis value sent to the command client and each value returned
\* in the envelope lies in [-0.5, 0.5], equals the input when that is in range
\* and the nearer bound otherwise; the call returns ok whenever the command
\* client accepted the command, whatever the input.
C21_VelocityClamped ==
    /\ ("issued" \in DOMAIN result.data /\ caller.op = "send_velocity") =>
          /\ called = {"robot_command"}
          /\ \A i \in 1..3 :
                Nearest(result.data.input[i], VelocityLimit,
                        result.data.issued[i])
    /\ (result.op = "send_velocity" /\ "vx" \in DOMAIN result.data) =>
          /\ result.ok
          /\ Nearest(result.data.input[1], VelocityLimit, result.data.vx)
          /\ Nearest(result.data.input[2], VelocityLimit, result.data.vy)
          /\ Nearest(result.data.input[3], VelocityLimit, result.data.yaw)

\* send_velocity has returned ok for an input below the range on one axis,
\* inside it on another and above it on the third.
C21_Witness ==
    /\ result.op = "send_velocity"
    /\ result.ok
    /\ result.data = [input |-> <<-7, 2, 6>>, vx |-> -5, vy |-> 2, yaw |-> 5]

\* C22: for every (height, roll, pitch, yaw) passed to set_body_pose on a
\* connected bridge, each axis sent and returned is its own input clamped to
\* [-0.3, 0.3], whatever the other three inputs are; in-range inputs pass
\* through unchanged.
C22_PoseAxesClampedIndependently ==
    result.op = "set_body_pose" =>
        /\ "issued" \in DOMAIN result.data =>
              \A i \in 1..4 :
                  Nearest(result.data.input[i], PoseLimit,
                          result.data.issued[i])
        /\ result.ok =>
              /\ Nearest(result.data.input[1], PoseLimit, result.data.height)
              /\ Nearest(result.data.input[2], PoseLimit, result.data.roll)
              /\ Nearest(result.data.input[3], PoseLimit, result.data.pitch)
              /\ Nearest(result.data.input[4], PoseLimit, result.data.yaw)
        /\ ~result.ok => result.data = NoData

\* set_body_pose has returned ok for an input with one axis below the range,
\* two inside it and one above it.
C22_Witness ==
    /\ result.op = "set_body_pose"
    /\ result.ok
    /\ called = {"robot_command"}
    /\ result.data.input = <<-4, 1, 3, 5>>
    /\ result.data.issued = <<-3, 1, 3, 3>>
    /\ result.data.height = -3
    /\ result.data.yaw = 3

\* ======================================================================
\* Claims about diagnose and the e-stop path
\* ======================================================================

\* C23: diagnose() never raises and returns ok:true whatever its probes meet:
\* every probe contributes exactly one entry even after an earlier probe
\* failed, the pass, fail and warn counts sum to the number of entries, and
\* overall_status is healthy exactly when no entry is a fail.
C23_DiagnoseNeverRaises ==
    result.op = "diagnose" =>
        /\ ~result.raised
        /\ result.ok
        /\ Len(result.data.checks) = IF br.connected THEN 5 ELSE 3
        /\ result.data.checks[1].name = "DNS Resolution"
        /\ result.data.checks[2].name = "Network Connectivity"
        /\ result.data.checks[3].name = "Robot Connection"
        /\ result.data.summary.passed + result.data.summary.failed
              + result.data.summary.warnings = Len(result.data.checks)
        /\ result.data.overall_status = "healthy" <=>
              \A i \in DOMAIN result.data.checks :
                  result.data.checks[i].status # "fail"
        /\ result.data.overall_status \in {"healthy", "degraded"}

\* estop_stop() or estop_release() returns in this step.
EstopStep == result'.op \in {"estop_stop", "estop_release"}

C25_AtMostOneWatchdog == AliveThreads <= 1

\* C26: at most one lease keepalive and at most one e-stop keepalive is
\* running at any time: no connect creates one while an earlier one has not
\* been shut down.
C26_AtMostOneKeepalive == kaLease <= 1 /\ kaEstop <= 1

\* ======================================================================
\* Claims about the order of connect's steps
\* ======================================================================

\* The calls of connect() before the watchdog is started, in the order the
\* spec gives them.
ConnectCalls ==
    <<"authenticate", "time_sync", "ensure_client", "lease_take",
      "estop_setup">>

\* The positions of _cleanup.
CleanupSteps == {"cl_flags", "cl_join", "cl_release", "cl_clear"}

\* C27: in every execution of connect() the steps occur in the order
\* authenticate, clock sync, resolve clients, take the lease and start its
\* keepalive, configure the e-stop and start its keepalive, start the
\* watchdog, set connected. A call is made only after all the calls before
\* it; a watchdog thread is started only by connect, with the lease held and
\* both keepalives present; connected is set only with both keepalives
\* present and the watchdog running; and once a step has failed no later call
\* is made, no thread is started and connected is not set.
C27_ConnectStepsInOrder ==
    [][/\ \A i \in DOMAIN ConnectCalls :
             (/\ caller.op = "connect"
              /\ ConnectCalls[i] \in called'
              /\ ConnectCalls[i] \notin called) =>
                 /\ \A j \in 1..(i - 1) : ConnectCalls[j] \in called
                 /\ \A j \in (i + 1)..Len(ConnectCalls) :
                       ConnectCalls[j] \notin called'
                 /\ AliveThreads' = AliveThreads
       /\ AliveThreads' > AliveThreads =>
             /\ caller.pc = "c_wdstart"
             /\ {"lease_take", "estop_setup"} \subseteq called
             /\ leaseOwner = "self"
             /\ br.lease_keepalive /\ br.estop_keepalive
             /\ ~br'.connected \/ br.connected
       /\ (caller.pc = "c_connected" /\ caller'.pc # caller.pc) =>
             /\ br'.connected
             /\ \A i \in DOMAIN ConnectCalls : ConnectCalls[i] \in called
             /\ br.lease_keepalive /\ br.estop_keepalive
             /\ br.watchdog_active /\ br.watchdog_thread /\ IsAlive
       /\ (~br.connected /\ br'.connected) => caller.pc = "c_connected"
       /\ (caller.op = "connect" /\ caller.pc \in CleanupSteps) =>
             /\ \A i \in DOMAIN ConnectCalls :
                   ConnectCalls[i] \in called' <=> ConnectCalls[i] \in called
             /\ "get_id" \in called' <=> "get_id" \in called
             /\ AliveThreads' <= AliveThreads
             /\ br'.connected => br.connected]_vars

\* connect() has returned ok after every step.
C27_Witness ==
    /\ result = OkEnvelope("connect")
    /\ called = {"authenticate", "time_sync", "ensure_client", "lease_take",
                 "estop_setup", "get_id"}
    /\ br.connected
    /\ IsAlive
    /\ leaseOwner = "self"

\* The names of test_connection's entries, in the order of its probes.
TestOrder ==
    <<"Network Connectivity", "Robot ID Query", "Authentication",
      "Time Synchronization">>

\* C28: the entries test_connection() returns form a prefix of the fixed
\* order Network Connectivity, Robot ID Query, Authentication, Time
\* Synchronization; a fail entry can only be the last entry and no probe runs
\* after a fail; the summary is "Network unreachable", "Robot unreachable" or
\* "Authentication failed" exactly according to which of the first three
\* probes failed; and the result is ok:true in every case.
C28_TestConnectionPrefix ==
    result.op = "test_connection" =>
        LET tests == result.data.tests
            n == Len(tests)
        IN  /\ result.ok
            /\ n \in 1..4
            /\ \A i \in 1..n : tests[i].name = TestOrder[i]
            /\ \A i \in 1..n : tests[i].status = "fail" => i = n
            /\ Cardinality(called) = n
            /\ result.data.summary = "Network unreachable" <=>
                  (n = 1 /\ tests[1].status = "fail")
            /\ result.data.summary = "Robot unreachable" <=>
                  (n = 2 /\ tests[2].status = "fail")
            /\ result.data.summary = "Authentication failed" <=>
                  (n = 3 /\ tests[3].status = "fail")

\* C28 as amended: as C28, with the summary of a failed first probe being
\* "Network unreachable" when the TCP connection is refused and "Network
\* error" when the TCP probe raises.
C28_TestConnectionPrefixAmended ==
    result.op = "test_connection" =>
        LET tests == result.data.tests
            n == Len(tests)
        IN  /\ result.ok
            /\ n \in 1..4
            /\ \A i \in 1..n : tests[i].name = TestOrder[i]
            /\ \A i \in 1..n : tests[i].status = "fail" => i = n
            /\ Cardinality(called) = n
            /\ result.data.summary \in {"Network unreachable", "Network error"}
                  <=> (n = 1 /\ tests[1].status = "fail")
            /\ result.data.summary = "Network unreachable" <=>
                  result.data.probes[1] = "refused"
            /\ result.data.summary = "Network error" <=>
                  result.data.probes[1] = "error"
            /\ result.data.summary = "Robot unreachable" <=>
                  (n = 2 /\ tests[2].status = "fail")
            /\ result.data.summary = "Authentication failed" <=>
                  (n = 3 /\ tests[3].status = "fail")

\* test_connection() has returned after its TCP probe raised.
C28_Witness ==
    /\ result.op = "test_connection"
    /\ result.data.probes[1] = "error"
    /\ result.data.summary = "Network error"
    /\ result.data.tests = <<Entry("Network Connectivity", "fail")>>

\* ======================================================================
\* Claims about what a step leaves unchanged
\* ======================================================================

\* The methods claim C29 calls operate methods.
OperateAndEstop == OperateMethods \cup {"estop_stop", "estop_release"}

\* An operate method returns a failure in this step: a refusal, an error
\* envelope or an exception.
OperateFails == result'.op \in OperateAndEstop /\ ~result'.ok

\* C29: only the steps of connect() and of disconnect()/_cleanup change the
\* connection state, the handles and the keepalives; a watchdog-forced stop,
\* successful or failed, together with the clearing of the deadline that
\* follows it, and any failure of an operate method leave connected, the
\* session and client handles, the watchdog flag, both keepalives, the lease
\* and the running watchdog threads unchanged.
C29_FailuresKeepSession ==
    [][/\ (Handles(br') # Handles(br) \/ robotSide' # robotSide) =>
             caller.op \in {"connect", "disconnect"}
       /\ (ForcedStop \/ WatchdogClears \/ OperateFails) =>
             /\ Handles(br') = Handles(br)
             /\ robotSide' = robotSide
             /\ AliveThreads' = AliveThreads
             /\ IsAlive' = IsAlive]_vars

\* A watchdog thread has just sent its forced stop on a connected bridge
\* that still holds its whole session.
C29_Witness ==
    /\ forced > 0
    /\ wd = "clear"
    /\ br.connected
    /\ SessionPresent(br)
    /\ kaLease = 1
    /\ kaEstop = 1

\* last_velocity_time is assigned in this step by something other than a
\* watchdog thread: its value changes otherwise than by growing older, and no
\* thread moves.
DeadlineWritten ==
    /\ br'.last_velocity_time # br.last_velocity_time
    /\ br'.last_velocity_time # Recede(br.last_velocity_time)
    /\ threads' = threads

\* C30: send_velocity's reset is the sole write path to the deadline from
\* outside the watchdog: no other operation (connect, disconnect, get_status,
\* power_on, power_off, stand, sit, set_body_pose, stop, estop_stop,
\* estop_release, diagnose, test_connection) writes last_velocity_time.
C30_OnlySendVelocityWritesDeadline ==
    [][DeadlineWritten =>
          /\ caller.op = "send_velocity"
          /\ br'.last_velocity_time = Now]_vars

\* C30 as amended: outside the watchdog the deadline is written by
\* send_velocity, which sets it to now, and by stop, which clears it, and by
\* no other operation.
C30_OnlySendVelocityAndStopWriteDeadline ==
    [][DeadlineWritten =>
          \/ /\ caller.op = "send_velocity"
             /\ result'.op = "send_velocity" /\ result'.ok
             /\ br'.last_velocity_time = Now
          \/ /\ caller.op = "stop"
             /\ result'.op = "stop" /\ result'.ok
             /\ br'.last_velocity_time = 0]_vars

\* stop() has returned ok on a connected bridge, having sent its zero
\* velocity and cleared the deadline.
C30_Witness ==
    /\ result = OkEnvelope("stop")
    /\ called = {"robot_command"}
    /\ br.connected
    /\ br.last_velocity_time = 0
    /\ ~armed

\* ======================================================================
\* Claims about the velocity endpoint and about failed commands
\* ======================================================================

\* C31: a POST to the velocity endpoint carrying (vx, vy, yaw) plus body-pose
\* or locomotion-hint fields, on a connected bridge whose command client
\* works, makes send_velocity issue the clamped command and reset the
\* deadline, and returns ok:true: the handler's response on a connected
\* bridge is an error only with the error of the command client.
C31_GatewayForwardsVelocity ==
    (result.op = "command_velocity" /\ br.connected /\ br.command_client) =>
        \/ /\ result.ok
           /\ called = {"robot_command"}
           /\ br.last_velocity_time = Now
        \/ /\ ~result.ok
           /\ called = {"robot_command"}
           /\ result.error_type \in Failures

\* The number of watchdog threads that have found the deadline active and
\* are about to compare its age with the timeout.
AtCompare == (IF wd = "compare" THEN 1 ELSE 0) + orphans["compare"]

C33_DeadlineOnlyAfterAcceptedCommand ==
    [][/\ (result'.op = "send_velocity" /\ ~result'.ok) =>
             /\ ~result'.raised
             /\ br'.last_velocity_time = br.last_velocity_time
       /\ (DeadlineWritten /\ br'.last_velocity_time = Now) =>
             /\ caller.pc = "sv_stamp"
             /\ called = {"robot_command"}
             /\ result'.ok]_vars

\* C34: diagnose() on a bridge that is not connected always returns a report
\* with a fail entry "Robot Connection" and overall_status degraded, even
\* when the DNS and the TCP probe both pass; overall_status healthy is
\* returned only while connected, where the lease and e-stop entries are pass
\* or, for a missing keepalive, warn, and never fail.
C34_DisconnectedDiagnoseDegraded ==
    result.op = "diagnose" =>
        /\ result.ok
        /\ ~br.connected =>
              /\ \E i \in DOMAIN result.data.checks :
                    result.data.checks[i] = Entry("Robot Connection", "fail")
              /\ result.data.overall_status = "degraded"
        /\ result.data.overall_status = "healthy" => br.connected
        /\ br.connected =>
              /\ result.data.checks[3] = Entry("Robot Connection", "pass")
              /\ result.data.checks[4] =
                    Entry("Lease Status",
                          IF br.lease_keepalive THEN "pass" ELSE "warn")
              /\ result.data.checks[5] =
                    Entry("E-Stop Status",
                          IF br.estop_keepalive THEN "pass" ELSE "warn")
              /\ result.data.overall_status = "healthy" <=>
                    result.data.probes = <<"pass", "pass">>
====
